---- MODULE Spec2Model ----
(***************************************************************************)
(* The in-memory file index of src/src/filesystem.rs (struct FileSystem    *)
(* and its handlers) together with the owner that drives it,               *)
(* FileSearch::update of src/src/main.rs, and the bulk load of main().     *)
(*                                                                         *)
(* Conventions.  A Rust Vec is a TLA+ sequence; Rust indexes from 0, so    *)
(* At(s, i) reads s[i] of the source.  A string is the sequence of its     *)
(* Unicode code points (UTF-8 byte order and code point order agree, so    *)
(* str::cmp is the lexicographic order on these sequences).  A panic of    *)
(* the owner thread is recorded in the field "panicked" of the state: the  *)
(* process unwinds out of main and no handler runs any more.               *)
(***************************************************************************)
EXTENDS Integers, Sequences, FiniteSets, TLC

VARIABLES
    filesystem,       \* FileSearch.filesystem : FileSystem
    search,           \* FileSearch.search (the text field)
    previous_search,  \* FileSearch.previous_search
    called,           \* history: what the latest step ran
    record_rx,        \* the records in flight in the channel, oldest first
    sent,             \* history: the records the reader thread has sent
    applied,          \* history: the records the owner has dispatched
    pc                \* the owner's position in FileSearch::update

\* the channel, its two histories and the owner's position
pipe == <<record_rx, sent, applied, pc>>

vars == <<filesystem, search, previous_search, called, record_rx, sent, applied, pc>>

----------------------------------------------------------------------------
(* Bounds of the model *)

\* create events are applied only while the store holds fewer entries
MaxFiles == 2
\* mft.max_record, the number of slots of the scanned file table
MaxRecord == 8

(* Program constants *)

\* usize::MAX, the "no entry" sentinel of position_mapping.  The value is
\* the largest integer of the model checker; all the code uses of it is
\* that it differs from, and exceeds, every position.
USIZE_MAX == 2147483647
\* Inode #5, the NTFS root directory
ROOT_FRN == 5

----------------------------------------------------------------------------
(* Vec and slice primitives *)

At(s, i) == s[i + 1]
SetAt(s, i, v) == [s EXCEPT ![i + 1] = v]
InBounds(s, i) == i >= 0 /\ i < Len(s)
Pop(s) == SubSeq(s, 1, Len(s) - 1)
Last(s) == s[Len(s)]
\* Vec::swap_remove(i) for i < len: the last element replaces element i
SwapRemove(s, i) == IF i = Len(s) - 1 THEN Pop(s) ELSE SetAt(Pop(s), i, Last(s))
\* Vec::remove(i): the elements after i shift left
Remove(s, i) == SubSeq(s, 1, i) \o SubSeq(s, i + 2, Len(s))
Reverse(s) == [i \in 1..Len(s) |-> s[Len(s) + 1 - i]]
Range(s) == {s[i] : i \in 1..Len(s)}
\* (0..n).collect()
Iota(n) == [i \in 1..n |-> i - 1]
\* vec![v; n]
Repeat(v, n) == [i \in 1..n |-> v]

Injections(n) == {f \in [1..n -> 1..n] : \A i, j \in 1..n : f[i] = f[j] => i = j}
Permutations_(s) == {[i \in 1..Len(s) |-> s[f[i]]] : f \in Injections(Len(s))}

----------------------------------------------------------------------------
(* Strings *)

\* char::is_whitespace on the code points the model uses (White_Space)
IsWhitespace(c) == c \in (9..13) \cup {32, 133, 160}

\* str::trim_end
RECURSIVE trim_end(_)
trim_end(s) ==
    IF Len(s) > 0 /\ IsWhitespace(Last(s)) THEN trim_end(Pop(s)) ELSE s

\* u8::to_ascii_lowercase on each char: only 'A'..'Z' change
AsciiLowerChar(c) == IF c \in 65..90 THEN c + 32 ELSE c
to_ascii_lowercase(s) == [i \in 1..Len(s) |-> AsciiLowerChar(s[i])]

\* char::to_lowercase on Basic Latin and Latin-1: 'A'..'Z' and the
\* uppercase letters U+00C0..U+00DE (except the multiplication sign U+00D7)
\* map to the letter 32 code points up
UnicodeLowerChar(c) ==
    IF c \in 65..90 \/ (c \in 192..222 /\ c # 215) THEN c + 32 ELSE c
to_lowercase(s) == [i \in 1..Len(s) |-> UnicodeLowerChar(s[i])]

\* str::contains(&needle)
Contains(hay, needle) ==
    \E i \in 0..(Len(hay) - Len(needle)) :
        SubSeq(hay, i + 1, i + Len(needle)) = needle

\* Ord for str: lexicographic, a proper prefix is smaller
RECURSIVE StrCmp(_, _)
StrCmp(a, b) ==
    IF Len(a) = 0 /\ Len(b) = 0 THEN 0
    ELSE IF Len(a) = 0 THEN -1
    ELSE IF Len(b) = 0 THEN 1
    ELSE IF a[1] < b[1] THEN -1
    ELSE IF a[1] > b[1] THEN 1
    ELSE StrCmp(Tail(a), Tail(b))

NumCmp(a, b) == IF a < b THEN -1 ELSE IF a > b THEN 1 ELSE 0

----------------------------------------------------------------------------
(* Identifier codec *)

\* FileId::Normal(u64), written as its four 16-bit words, least
\* significant first: a slot number in the low 48 bits and a sequence
\* number in the top word
NormalId(slot, seq) == [tag |-> "Normal", words |-> <<slot, 0, 0, seq>>]
\* FileId::Extended(FILE_ID_128), written as its 16 Identifier bytes
ExtendedId(slot, hi) ==
    [tag |-> "Extended",
     Identifier |-> <<slot % 256, slot \div 256, 0, 0, 0, 0, hi, hi,
                      0, 0, 0, 0, 0, 0, 0, hi>>]

\* a & b on unsigned words, bit by bit from the least significant bit
RECURSIVE BitAnd(_, _)
BitAnd(a, b) ==
    IF a = 0 \/ b = 0 THEN 0
    ELSE (a % 2) * (b % 2) + 2 * BitAnd(a \div 2, b \div 2)

\* 0x0000_FFFF_FFFF_FFFF as four 16-bit words, least significant first
MASK_48 == <<65535, 65535, 65535, 0>>

\* [u8; 8] to u64 (u64::from_le_bytes), as four 16-bit words
from_le_bytes(bytes) == [i \in 1..4 |-> bytes[2 * i - 1] + 256 * bytes[2 * i]]

\* file_id_to_frn as it would be without the mask and with all eight bytes
\* of the low half copied
file_id_to_frn_u64_unmasked(file_id) ==
    IF file_id.tag = "Normal"
    THEN file_id.words
    ELSE from_le_bytes([i \in 1..8 |-> file_id.Identifier[i]])

\* file_id_to_frn, its u64 result as four 16-bit words, least significant
\* first
file_id_to_frn_u64(file_id) ==
    IF file_id.tag = "Normal"
    THEN \* file_id & 0x0000_FFFF_FFFF_FFFF
         [i \in 1..4 |-> BitAnd(file_id.words[i], MASK_48[i])]
    ELSE \* bytes = [0; 8]; bytes[0..6] = Identifier[0..6]; u64::from_le_bytes
         from_le_bytes([i \in 1..8 |-> IF i <= 6 THEN file_id.Identifier[i] ELSE 0])

\* the number a u64 given by its words stands for (`as usize` where the
\* result indexes a Vec)
WordsValue(w) == w[1] + 65536 * (w[2] + 65536 * (w[3] + 65536 * w[4]))

file_id_to_frn(file_id) == WordsValue(file_id_to_frn_u64(file_id))

----------------------------------------------------------------------------
(* struct FileSystem *)

Panic(fs) == [fs EXCEPT !.panicked = TRUE]

\* the struct literal of main(), before the scan
EmptyFileSystem(max_record) ==
    [position_mapping    |-> Repeat(USIZE_MAX, max_record),
     frn_mapping         |-> <<>>,
     parent_mapping      |-> <<>>,
     filesizes           |-> <<>>,
     modified_dates      |-> <<>>,
     filenames           |-> <<>>,
     lowercase_filenames |-> <<>>,
     shown               |-> <<>>,
     volume_path         |-> <<67, 58, 92>>,
     order               |-> "RecordNumber",
     direction           |-> "Descending",
     panicked            |-> FALSE]

\* the comparator of the active key, with the direction applied; a and b
\* are positions that the key's Vec holds
Compare(fs, a, b) ==
    LET ordering ==
            IF fs.order = "Name"
            THEN StrCmp(At(fs.filenames, a), At(fs.filenames, b))
            ELSE NumCmp(At(fs.filesizes, a), At(fs.filesizes, b))
    IN  IF fs.direction = "Ascending" THEN ordering ELSE 0 - ordering

\* the Vec the comparator of the active key indexes
KeyVec(fs) == IF fs.order = "Name" THEN fs.filenames ELSE fs.filesizes

IsSortedAscending(s) == \A i \in 1..(Len(s) - 1) : s[i] <= s[i + 1]

\* FileSystem::sort.  sort_unstable and par_sort_unstable_by leave any
\* permutation that the comparator accepts, so every such permutation is an
\* outcome.  With two or more elements every element is compared at least
\* once, and the comparator indexes filenames / filesizes with a bounds
\* check.
FileSystem_sort(fs) ==
    IF fs.order = "RecordNumber"
    THEN {[fs EXCEPT !.shown = p] :
            p \in {q \in Permutations_(fs.shown) : IsSortedAscending(q)}}
    ELSE IF Len(fs.shown) >= 2
            /\ \E i \in 1..Len(fs.shown) : ~InBounds(KeyVec(fs), fs.shown[i])
    THEN {Panic(fs)}
    ELSE {[fs EXCEPT !.shown = p] :
            p \in {q \in Permutations_(fs.shown) :
                     \A i \in 1..(Len(q) - 1) : Compare(fs, q[i], q[i + 1]) <= 0}}

\* the elements of s, in order, that are in keep
RECURSIVE FilterSeq(_, _)
FilterSeq(s, keep) ==
    IF Len(s) = 0 THEN <<>>
    ELSE (IF s[1] \in keep THEN <<s[1]>> ELSE <<>>) \o FilterSeq(Tail(s), keep)

\* search as it would be without the closing sort call
FileSystem_search_unsorted(fs, query) ==
    LET q == to_ascii_lowercase(trim_end(query))
        hits == {i \in 0..(Len(fs.lowercase_filenames) - 1) :
                    Contains(At(fs.lowercase_filenames, i), q)}
    IN  {[fs EXCEPT !.shown = FilterSeq(Iota(Len(fs.lowercase_filenames)), hits)]}

\* FileSystem::search
FileSystem_search(fs, query) ==
    LET q == to_ascii_lowercase(trim_end(query))
        hits == {i \in 0..(Len(fs.lowercase_filenames) - 1) :
                    Contains(At(fs.lowercase_filenames, i), q)}
    IN  FileSystem_sort(
            [fs EXCEPT !.shown = FilterSeq(Iota(Len(fs.lowercase_filenames)), hits)])

\* search_shown as it would be without trim_end on the query
FileSystem_search_shown_untrimmed(fs, query) ==
    LET q == to_ascii_lowercase(query)
        stale == {i \in Range(fs.shown) : ~InBounds(fs.lowercase_filenames, i)}
        hits == {i \in Range(fs.shown) \ stale :
                    Contains(At(fs.lowercase_filenames, i), q)}
    IN  (IF stale = {} THEN {} ELSE {Panic(fs)})
        \cup UNION {FileSystem_sort(
                        [fs EXCEPT !.shown = FilterSeq(fs.shown, hits \cup d)]) :
                    d \in SUBSET stale}

\* FileSystem::search_shown.  get_unchecked(*i) with *i beyond the Vec is
\* undefined behaviour: the read may yield a string that contains the query,
\* one that does not, or fault.
FileSystem_search_shown(fs, query) ==
    LET q == to_ascii_lowercase(trim_end(query))
        stale == {i \in Range(fs.shown) : ~InBounds(fs.lowercase_filenames, i)}
        hits == {i \in Range(fs.shown) \ stale :
                    Contains(At(fs.lowercase_filenames, i), q)}
    IN  (IF stale = {} THEN {} ELSE {Panic(fs)})
        \cup UNION {FileSystem_sort(
                        [fs EXCEPT !.shown = FilterSeq(fs.shown, hits \cup d)]) :
                    d \in SUBSET stale}

\* slice::binary_search(&x), Ok(i) as i and Err(_) as -1, as the standard
\* library computes it.  The library has shipped two loops; on a slice that
\* is not sorted they may disagree, and the result is whichever the build
\* links.
\* The loop that halves `size` around `base` and compares for equality last
RECURSIVE BinarySearchByHalving(_, _, _, _)
BinarySearchByHalving(s, x, base, size) ==
    IF size > 1
    THEN LET half == size \div 2
             mid == base + half
         IN  BinarySearchByHalving(s, x, IF At(s, mid) > x THEN base ELSE mid,
                                   size - half)
    ELSE IF At(s, base) = x THEN base ELSE -1

\* The loop that narrows left..right and returns at the first equal element
RECURSIVE BinarySearchByBounds(_, _, _, _)
BinarySearchByBounds(s, x, left, right) ==
    IF left < right
    THEN LET mid == left + ((right - left) \div 2) IN
         IF At(s, mid) < x THEN BinarySearchByBounds(s, x, mid + 1, right)
         ELSE IF At(s, mid) > x THEN BinarySearchByBounds(s, x, left, mid)
         ELSE mid
    ELSE -1

BinarySearch(s, x) ==
    IF Len(s) = 0 THEN {-1}
    ELSE {BinarySearchByHalving(s, x, 0, Len(s)),
          BinarySearchByBounds(s, x, 0, Len(s))}

\* FileSystem::delete
FileSystem_delete(fs, file_id) ==
    LET file_record_number == file_id_to_frn(file_id) IN
    IF ~InBounds(fs.position_mapping, file_record_number) THEN {Panic(fs)}
    ELSE
    LET filename_position == At(fs.position_mapping, file_record_number) IN
    IF filename_position = USIZE_MAX THEN {fs}
    \* len() - 1 underflows on an empty Vec (panic with overflow checks;
    \* without them the else branch's swap_remove panics), and swap_remove
    \* panics on an index beyond the Vec
    ELSE IF ~InBounds(fs.filenames, filename_position) THEN {Panic(fs)}
    ELSE
    LET removed ==
            IF filename_position = Len(fs.filenames) - 1
            THEN [fs EXCEPT
                    !.filenames = Pop(@),
                    !.lowercase_filenames = Pop(@),
                    !.frn_mapping = Pop(@),
                    !.parent_mapping = Pop(@),
                    !.position_mapping = SetAt(@, file_record_number, USIZE_MAX)]
            ELSE
                LET replacement_frn == Last(fs.frn_mapping)
                    replacement_parent_frn == Last(fs.parent_mapping)
                IN  IF ~InBounds(fs.position_mapping, replacement_frn)
                    THEN Panic(fs)
                    ELSE [fs EXCEPT
                        !.filenames = SwapRemove(@, filename_position),
                        !.lowercase_filenames = SwapRemove(@, filename_position),
                        !.frn_mapping = SetAt(Pop(@), filename_position, replacement_frn),
                        !.parent_mapping =
                            SetAt(Pop(@), filename_position, replacement_parent_frn),
                        !.position_mapping =
                            SetAt(SetAt(@, file_record_number, USIZE_MAX),
                                  replacement_frn, filename_position)]
    IN  IF removed.panicked THEN {removed}
        ELSE {IF position = -1 THEN removed
              ELSE [removed EXCEPT !.shown = Remove(@, position)] :
                position \in BinarySearch(removed.shown, filename_position)}

\* Path::file_name: None (the empty sequence here) when the path has no
\* component or ends in "..", else Some(final component), written <<name>>.
\* A path is the sequence of its components below the volume root.
DotDot == <<46, 46>>
file_name(path) ==
    IF Len(path) = 0 \/ Last(path) = DotDot THEN <<>> ELSE <<Last(path)>>

\* OsStr::to_string_lossy: an unpaired surrogate becomes U+FFFD
to_string_lossy(s) ==
    [i \in 1..Len(s) |-> IF s[i] \in 55296..57343 THEN 65533 ELSE s[i]]

\* rename as it would be if it wrote the parent to every entry
FileSystem_rename_every_parent(fs, file_id, parent_id, path) ==
    LET file_record_number == file_id_to_frn(file_id)
        parent_record_number == file_id_to_frn(parent_id)
    IN
    IF ~InBounds(fs.position_mapping, file_record_number) THEN {Panic(fs)}
    ELSE
    LET filename_position == At(fs.position_mapping, file_record_number)
        named ==
            IF file_name(path) = <<>> THEN fs
            ELSE IF filename_position = USIZE_MAX THEN fs
            ELSE IF ~InBounds(fs.lowercase_filenames, filename_position)
            THEN Panic(fs)
            ELSE LET filename == to_string_lossy(file_name(path)[1]) IN
                 [fs EXCEPT
                    !.lowercase_filenames =
                        SetAt(@, filename_position, to_lowercase(filename)),
                    !.filenames = SetAt(@, filename_position, filename)]
    IN
    \* the early return leaves the function inside the if-let
    IF file_name(path) # <<>> /\ filename_position = USIZE_MAX THEN {fs}
    ELSE IF named.panicked THEN {named}
    ELSE IF ~InBounds(named.parent_mapping, filename_position) THEN {Panic(named)}
    ELSE {[named EXCEPT
            !.parent_mapping = [i \in 1..Len(@) |-> parent_record_number]]}

\* FileSystem::rename
FileSystem_rename(fs, file_id, parent_id, path) ==
    LET file_record_number == file_id_to_frn(file_id)
        parent_record_number == file_id_to_frn(parent_id)
    IN
    IF ~InBounds(fs.position_mapping, file_record_number) THEN {Panic(fs)}
    ELSE
    LET filename_position == At(fs.position_mapping, file_record_number)
        named ==
            IF file_name(path) = <<>> THEN fs
            ELSE IF filename_position = USIZE_MAX THEN fs
            ELSE IF ~InBounds(fs.lowercase_filenames, filename_position)
            THEN Panic(fs)
            ELSE LET filename == to_string_lossy(file_name(path)[1]) IN
                 [fs EXCEPT
                    !.lowercase_filenames =
                        SetAt(@, filename_position, to_lowercase(filename)),
                    !.filenames = SetAt(@, filename_position, filename)]
    IN
    \* the early return leaves the function inside the if-let
    IF file_name(path) # <<>> /\ filename_position = USIZE_MAX THEN {fs}
    ELSE IF named.panicked THEN {named}
    ELSE IF ~InBounds(named.parent_mapping, filename_position) THEN {Panic(named)}
    ELSE {[named EXCEPT
            !.parent_mapping = SetAt(@, filename_position, parent_record_number)]}

\* FileSystem::create
FileSystem_create(fs, file_id, parent_id, path) ==
    IF file_name(path) = <<>> THEN {fs}
    ELSE
    LET file_record_number == file_id_to_frn(file_id)
        parent_record_number == file_id_to_frn(parent_id)
        filename == to_string_lossy(file_name(path)[1])
        filename_position == Len(fs.filenames)
        pushed == [fs EXCEPT
                    !.lowercase_filenames = Append(@, to_lowercase(filename)),
                    !.filenames = Append(@, to_lowercase(filename)),
                    !.frn_mapping = Append(@, file_record_number),
                    !.parent_mapping = Append(@, parent_record_number)]
        len == Len(fs.position_mapping)
    IN
    \* len() as u64 - 1 on an empty map: a panic with overflow checks, and
    \* without them the loop is skipped and the index below is out of bounds
    IF len = 0 THEN {Panic(pushed)}
    ELSE
    LET expanded ==
            IF len - 1 < file_record_number
            THEN pushed.position_mapping \o Repeat(USIZE_MAX, file_record_number + 1 - len)
            ELSE pushed.position_mapping
    IN  {[pushed EXCEPT
            !.position_mapping = SetAt(expanded, file_record_number, filename_position)]}

\* FileSystem::update: an empty body
FileSystem_update(fs, file_id, parent_id, path) == {fs}

\* The loop of FileSystem::path from filename_position, with the names
\* collected so far.  Each index is bounds-checked, so an index beyond its
\* Vec (the sentinel included) panics.  A walk that has taken more steps
\* than the store has entries has come back to a position it has left, and
\* then repeats for ever, pushing to components until the allocation fails.
RECURSIVE PathWalk(_, _, _, _)
PathWalk(fs, filename_position, components, steps) ==
    IF ~InBounds(fs.parent_mapping, filename_position)
    THEN [status |-> "panic", components |-> components]
    ELSE LET parent == At(fs.parent_mapping, filename_position) IN
    IF parent = ROOT_FRN THEN [status |-> "ok", components |-> components]
    ELSE IF ~InBounds(fs.position_mapping, parent)
    THEN [status |-> "panic", components |-> components]
    ELSE LET next == At(fs.position_mapping, parent) IN
    IF ~InBounds(fs.filenames, next)
    THEN [status |-> "panic", components |-> components]
    ELSE IF steps >= Len(fs.filenames)
    THEN [status |-> "diverges", components |-> components]
    ELSE PathWalk(fs, next, Append(components, At(fs.filenames, next)), steps + 1)

\* path as it would be if the collected names were pushed in the order of
\* the walk
FileSystem_path_leaf_first(fs, position) ==
    LET walk == PathWalk(fs, position, <<>>, 0) IN
    [status |-> walk.status,
     path   |-> IF walk.status = "ok"
                THEN <<fs.volume_path>> \o walk.components
                ELSE <<>>]

\* FileSystem::path.  A PathBuf is the sequence of the strings it was built
\* from: the volume path, then one element for each push.
FileSystem_path(fs, position) ==
    LET walk == PathWalk(fs, position, <<>>, 0) IN
    [status |-> walk.status,
     path   |-> IF walk.status = "ok"
                THEN <<fs.volume_path>> \o Reverse(walk.components)
                ELSE <<>>]

\* Path::components below the volume root: an element "." is left out
Dot == <<46>>
RECURSIVE Components(_)
Components(elements) ==
    IF Len(elements) = 0 THEN <<>>
    ELSE (IF elements[1] = Dot THEN <<>> ELSE <<elements[1]>>)
            \o Components(Tail(elements))

\* Path::file_name of a PathBuf that starts with the volume path
PathBuf_file_name(pathbuf) == file_name(Components(Tail(pathbuf)))

----------------------------------------------------------------------------
(* The owner: FileSearch::update *)

\* the closure as it would be if the tests of the reason bits were chained
\* with else: only the handler of the first set bit runs
ApplyRecordOutcomes_first_bit(fs, record) ==
    IF "FILE_DELETE" \in record.reason
    THEN FileSystem_delete(fs, record.file_id)
    ELSE IF "RENAME_NEW_NAME" \in record.reason
    THEN FileSystem_rename(fs, record.file_id, record.parent_id, record.path)
    ELSE IF "FILE_CREATE" \in record.reason
    THEN FileSystem_create(fs, record.file_id, record.parent_id, record.path)
    ELSE IF "BASIC_INFO_CHANGE" \in record.reason
    THEN FileSystem_update(fs, record.file_id, record.parent_id, record.path)
    ELSE {fs}

\* the closure of record_rx.try_iter().for_each: the handlers of the reason
\* bits that are set, in the order delete, rename, create, update; a handler
\* that panics ends the closure
ApplyRecordOutcomes(fs, record) ==
    LET Del(f) == IF ~f.panicked /\ "FILE_DELETE" \in record.reason
                  THEN FileSystem_delete(f, record.file_id) ELSE {f}
        Ren(f) == IF ~f.panicked /\ "RENAME_NEW_NAME" \in record.reason
                  THEN FileSystem_rename(f, record.file_id, record.parent_id, record.path)
                  ELSE {f}
        Cre(f) == IF ~f.panicked /\ "FILE_CREATE" \in record.reason
                  THEN FileSystem_create(f, record.file_id, record.parent_id, record.path)
                  ELSE {f}
        Upd(f) == IF ~f.panicked /\ "BASIC_INFO_CHANGE" \in record.reason
                  THEN FileSystem_update(f, record.file_id, record.parent_id, record.path)
                  ELSE {f}
    IN  UNION {Upd(c) : c \in UNION {Cre(b) : b \in UNION {Ren(a) : a \in Del(fs)}}}

\* the text field changed to new: the empty-query reset, or search_shown
\* when the previous text is non-empty and contained in the new one, or
\* search
QueryChangeOutcomes(fs, previous, new) ==
    IF Len(new) = 0
    THEN {[fs EXCEPT !.shown = Iota(Len(fs.filenames))]}
    ELSE IF Len(previous) # 0 /\ Contains(new, previous)
    THEN FileSystem_search_shown(fs, new)
    ELSE FileSystem_search(fs, new)

Flip(direction) == IF direction = "Ascending" THEN "Descending" ELSE "Ascending"

\* a header click as it would be if a key change left the direction alone
HeaderClickOutcomes_keeping_direction(fs, key) ==
    IF fs.order = key
    THEN {[fs EXCEPT !.direction = Flip(@), !.shown = Reverse(@)]}
    ELSE FileSystem_sort([fs EXCEPT !.order = key])

\* a click on the header of key: a direction toggle with an in-place
\* reverse when key is the active key, else the key is set, the direction
\* becomes Descending and the View is sorted
HeaderClickOutcomes(fs, key) ==
    IF fs.order = key
    THEN {[fs EXCEPT !.direction = Flip(@), !.shown = Reverse(@)]}
    ELSE FileSystem_sort([fs EXCEPT !.order = key, !.direction = "Descending"])

----------------------------------------------------------------------------
(* Bulk load: the scan loop of main() *)

\* Option<record>: None is <<>>, Some(r) is <<r>>
NoRecord == <<>>

\* an iteration as it would be if the slot of the Position Map were left at
\* the sentinel
LoadRecord_without_map(fs, mft, number) ==
    IF mft[number] = NoRecord THEN fs
    ELSE [fs EXCEPT
            !.parent_mapping = Append(@, mft[number][1].parent),
            !.frn_mapping = Append(@, number),
            !.filesizes = Append(@, mft[number][1].size),
            !.modified_dates = Append(@, mft[number][1].modified),
            !.lowercase_filenames = Append(@, to_lowercase(mft[number][1].name)),
            !.filenames = Append(@, mft[number][1].name)]

\* one iteration of `for number in 0..mft.max_record`; mft[number] is
\* NoRecord when the slot has no record, is not in use or has no file name
LoadRecord(fs, mft, number) ==
    IF mft[number] = NoRecord THEN fs
    ELSE [fs EXCEPT
            !.position_mapping = SetAt(@, number, Len(fs.filenames)),
            !.parent_mapping = Append(@, mft[number][1].parent),
            !.frn_mapping = Append(@, number),
            !.filesizes = Append(@, mft[number][1].size),
            !.modified_dates = Append(@, mft[number][1].modified),
            !.lowercase_filenames = Append(@, to_lowercase(mft[number][1].name)),
            !.filenames = Append(@, mft[number][1].name)]

RECURSIVE ScanFrom(_, _, _, _)
ScanFrom(fs, mft, number, max_record) ==
    IF number >= max_record THEN fs
    ELSE ScanFrom(LoadRecord(fs, mft, number), mft, number + 1, max_record)

BulkLoad(mft, max_record) ==
    LET scanned == ScanFrom(EmptyFileSystem(max_record), mft, 0, max_record)
    IN  [scanned EXCEPT !.shown = Iota(Len(scanned.filenames))]

----------------------------------------------------------------------------
(* Inputs *)

\* the slots of the file table that may hold an in-use record at the scan
LoadSlots == {6, 7}
\* file names: "b" and "\u00C9Ab" (E acute, upper case, then "Ab")
Names == {<<98>>, <<201, 65, 98>>}
FileSizes == {1, 2}
ModifiedTimes == {<<>>}
\* parent references: the root directory
ParentFrns == {ROOT_FRN}

MftRecords ==
    [parent : ParentFrns, name : Names, size : FileSizes, modified : ModifiedTimes]
MftImages ==
    {[n \in 0..(MaxRecord - 1) |-> IF n \in LoadSlots THEN f[n] ELSE NoRecord] :
        f \in [LoadSlots -> {NoRecord} \cup {<<r>> : r \in MftRecords}]}

\* identifiers of change records: slot 6 in the 64-bit form with sequence
\* number 1, slot 7 in the extended form
FileIds == {NormalId(6, 1), ExtendedId(7, 2)}
ParentIds == {NormalId(ROOT_FRN, 5)}
\* record paths: one per name, and the volume root (no file-name component)
Paths == {<<n>> : n \in Names} \cup {<<>>}
Reasons ==
    {{"FILE_DELETE"}, {"RENAME_NEW_NAME"}, {"FILE_CREATE"}, {"BASIC_INFO_CHANGE"},
     {"RENAME_OLD_NAME"}, {"FILE_CREATE", "BASIC_INFO_CHANGE"}}
UsnRecords ==
    [file_id : FileIds, parent_id : ParentIds, path : Paths, reason : Reasons]

\* query texts: "", "b", "Ab " and U+00C9
Queries == {<<>>, <<98>>, <<65, 98, 32>>, <<201>>}

----------------------------------------------------------------------------
(* The state machine *)

\* values of the history variable: the entry point, its query argument, and
\* the entry point whose result was the View it ran on.  A header click is
\* recorded as "toggle" or "set_order", with the direction it found.
NoCall == [entry |-> "none", query |-> <<>>, after |-> "none"]
Call(entry, query, after) == [entry |-> entry, query |-> query, after |-> after]

\* the branch FileSearch::update takes for a changed text field
ClickEntry(fs, key) == IF fs.order = key THEN "toggle" ELSE "set_order"

QueryEntry(previous, new) ==
    IF Len(new) = 0 THEN "reset"
    ELSE IF Len(previous) # 0 /\ Contains(new, previous) THEN "search_shown"
    ELSE "search"

\* the channel as mpsc::channel() returns it, the owner before its first
\* update: at the drain of the records
ChannelIdle ==
    /\ record_rx = <<>>
    /\ sent = <<>>
    /\ applied = <<>>
    /\ pc = "drain"

Init ==
    /\ \E mft \in MftImages : filesystem = BulkLoad(mft, MaxRecord)
    /\ search = <<>>
    /\ previous_search = <<>>
    /\ called = NoCall
    /\ ChannelIdle

\* one record taken from the channel and dispatched
ApplyRecord ==
    /\ ~filesystem.panicked
    /\ \E record \in UsnRecords :
        /\ "FILE_CREATE" \in record.reason => Len(filesystem.filenames) < MaxFiles
        /\ filesystem' \in ApplyRecordOutcomes(filesystem, record)
    /\ called' = NoCall
    /\ UNCHANGED <<search, previous_search, pipe>>

\* a tick on which the text field changed; previous_search.clone_from(&search)
\* ends the query handling of every tick
QueryChange ==
    /\ ~filesystem.panicked
    /\ \E new \in Queries :
        /\ new # search
        /\ search' = new
        /\ filesystem' \in QueryChangeOutcomes(filesystem, previous_search, new)
        /\ previous_search' = new
        /\ called' = Call(QueryEntry(previous_search, new), new, called.entry)
    /\ UNCHANGED pipe

\* a tick on which the Name header was clicked
ClickName ==
    /\ ~filesystem.panicked
    /\ filesystem' \in HeaderClickOutcomes(filesystem, "Name")
    /\ called' = Call(ClickEntry(filesystem, "Name"), <<>>, filesystem.direction)
    /\ UNCHANGED <<search, previous_search, pipe>>

\* a tick on which the File Size header was clicked
ClickSize ==
    /\ ~filesystem.panicked
    /\ filesystem' \in HeaderClickOutcomes(filesystem, "Size")
    /\ called' = Call(ClickEntry(filesystem, "Size"), <<>>, filesystem.direction)
    /\ UNCHANGED <<search, previous_search, pipe>>

Next == ApplyRecord \/ QueryChange \/ ClickName \/ ClickSize

Spec == Init /\ [][Next]_vars

\* The entry points are public: a caller other than FileSearch::update may
\* pass them the empty string, which update never does.
CallSearchEmpty ==
    /\ ~filesystem.panicked
    /\ filesystem' \in FileSystem_search(filesystem, <<>>)
    /\ called' = Call("search", <<>>, called.entry)
    /\ UNCHANGED <<search, previous_search, pipe>>

CallSearchShownEmpty ==
    /\ ~filesystem.panicked
    /\ filesystem' \in FileSystem_search_shown(filesystem, <<>>)
    /\ called' = Call("search_shown", <<>>, called.entry)
    /\ UNCHANGED <<search, previous_search, pipe>>

NextApi ==
    \/ ApplyRecord \/ QueryChange \/ ClickName \/ ClickSize
    \/ CallSearchEmpty \/ CallSearchShownEmpty

SpecApi == Init /\ [][NextApi]_vars

----------------------------------------------------------------------------
(* Vocabulary of the properties *)

\* the entry count: the length of the name sequence
EntryCount(fs) == Len(fs.filenames)
Positions(fs) == 0..(EntryCount(fs) - 1)
IsSentinel(v) == v = USIZE_MAX

\* the View is ordered by the active key and direction; a position whose
\* key the key's sequence does not hold constrains nothing
IsOrdered(fs) ==
    IF fs.order = "RecordNumber" THEN IsSortedAscending(fs.shown)
    ELSE \A i \in 1..(Len(fs.shown) - 1) :
            (InBounds(KeyVec(fs), fs.shown[i]) /\ InBounds(KeyVec(fs), fs.shown[i + 1]))
                => Compare(fs, fs.shown[i], fs.shown[i + 1]) <= 0

----------------------------------------------------------------------------
(* The store driven through its public operations *)

\* create is called only while the store holds fewer entries
MaxEntries == 3

\* lengths of the scanned table: none, one slot short of MaxRecord, MaxRecord
TableLengths == {0, MaxRecord - 1, MaxRecord}
\* scanned tables whose records all have size 1 and the name "\u00C9Ab"
StoreImages ==
    {mft \in MftImages :
        \A n \in LoadSlots :
            mft[n] # NoRecord
                => mft[n][1].size = 1 /\ mft[n][1].name = <<201, 65, 98>>}
\* parents named by the calls: the root directory and the directories in
\* slots 6 and 7
StoreParentIds == ParentIds \cup {NormalId(6, 1), NormalId(7, 1)}
\* paths passed to the calls: "\u00C9Ab" and the volume root
StorePaths == {<<<<201, 65, 98>>>>, <<>>}

\* an entry with RID rid is in the store
HasEntry(fs, rid) == \E p \in Positions(fs) : At(fs.frn_mapping, p) = rid

\* history of a call of a mutation: the operation, the RID it named, and
\* whether the RID had an entry ("present" / "absent"); a delete that names
\* the RID of the delete just before it, which found the RID present, is
\* recorded as "repeat"
OpCall(op, fs, rid) ==
    Call(op, <<rid>>,
         IF op = "delete" /\ called.entry = "delete" /\ called.query = <<rid>>
                /\ called.after = "present"
         THEN "repeat"
         ELSE IF HasEntry(fs, rid) THEN "present" ELSE "absent")

InitStore ==
    /\ \E mft \in StoreImages, max_record \in TableLengths :
            filesystem = BulkLoad(mft, max_record)
    /\ search = <<>>
    /\ previous_search = <<>>
    /\ called = NoCall
    /\ ChannelIdle

CallDelete ==
    /\ ~filesystem.panicked
    /\ \E file_id \in FileIds :
        /\ filesystem' \in FileSystem_delete(filesystem, file_id)
        /\ called' = OpCall("delete", filesystem, file_id_to_frn(file_id))
    /\ UNCHANGED <<search, previous_search, pipe>>

CallRename ==
    /\ ~filesystem.panicked
    /\ \E file_id \in FileIds, parent_id \in StoreParentIds, path \in StorePaths :
        /\ filesystem' \in FileSystem_rename(filesystem, file_id, parent_id, path)
        /\ called' = OpCall("rename", filesystem, file_id_to_frn(file_id))
    /\ UNCHANGED <<search, previous_search, pipe>>

CallCreate ==
    /\ ~filesystem.panicked
    /\ Len(filesystem.filenames) < MaxEntries
    /\ \E file_id \in FileIds, parent_id \in StoreParentIds, path \in StorePaths :
        /\ filesystem' \in FileSystem_create(filesystem, file_id, parent_id, path)
        /\ called' = OpCall("create", filesystem, file_id_to_frn(file_id))
    /\ UNCHANGED <<search, previous_search, pipe>>

CallUpdate ==
    /\ ~filesystem.panicked
    /\ \E file_id \in FileIds, parent_id \in StoreParentIds, path \in StorePaths :
        /\ filesystem' \in FileSystem_update(filesystem, file_id, parent_id, path)
        /\ called' = OpCall("update", filesystem, file_id_to_frn(file_id))
    /\ UNCHANGED <<search, previous_search, pipe>>

NextStore == CallDelete \/ CallRename \/ CallCreate \/ CallUpdate

SpecStore == InitStore /\ [][NextStore]_vars

----------------------------------------------------------------------------
(* Path resolution of the rows *)

\* the scanned tables of a volume with the root directory "." in slot 5
\* (its own parent), and optionally a directory "a" in slot 4 under the
\* root, a directory "b" in slot 6 under the root or under "a", and a file
\* "c" in slot 7 under the root, "a" or "b"; a parent is always in the table
TreeRecord(parent, name) ==
    <<[parent |-> parent, name |-> name, size |-> 1, modified |-> <<>>]>>
TreeImages ==
    {[n \in 0..(MaxRecord - 1) |->
            IF n = ROOT_FRN THEN TreeRecord(ROOT_FRN, Dot)
            ELSE IF n = 4 THEN a
            ELSE IF n = 6 THEN b
            ELSE IF n = 7 THEN c
            ELSE NoRecord] :
        a \in {NoRecord, TreeRecord(ROOT_FRN, <<97>>)},
        b \in {NoRecord} \cup {TreeRecord(parent, <<98>>) : parent \in {ROOT_FRN, 4}},
        c \in {NoRecord} \cup {TreeRecord(parent, <<99>>) : parent \in {ROOT_FRN, 4, 6}}}
ConsistentTreeImages ==
    {mft \in TreeImages :
        \A n \in {4, 6, 7} :
            mft[n] # NoRecord => mft[mft[n][1].parent] # NoRecord}

InitPath ==
    /\ \E mft \in ConsistentTreeImages : filesystem = BulkLoad(mft, MaxRecord)
    /\ search = <<>>
    /\ previous_search = <<>>
    /\ called = NoCall
    /\ ChannelIdle

\* the body of one row: path(index) for an element of the View, or for any
\* position (path is public).  A call that panics or never returns ends the
\* owner; the history keeps the position and how the call ended.
CallPath ==
    /\ ~filesystem.panicked
    /\ \E position \in Range(filesystem.shown) \cup Positions(filesystem) :
        LET result == FileSystem_path(filesystem, position) IN
        /\ filesystem' = IF result.status = "ok" THEN filesystem
                         ELSE Panic(filesystem)
        /\ called' = Call("path", <<position>>, result.status)
    /\ UNCHANGED <<search, previous_search, pipe>>

NextPath == CallDelete \/ CallRename \/ CallCreate \/ CallUpdate \/ CallPath

SpecPath == InitPath /\ [][NextPath]_vars

----------------------------------------------------------------------------
(* C1 *)

\* C1: after every step of any sequence of create, rename and delete events
\* applied to a store that was consistent after bulk load, every occupied
\* position p satisfies position_mapping[frn_mapping[p]] == p.
C1_OccupiedPositionsMapBack ==
    ~filesystem.panicked =>
        \A p \in Positions(filesystem) :
            /\ InBounds(filesystem.position_mapping, At(filesystem.frn_mapping, p))
            /\ At(filesystem.position_mapping, At(filesystem.frn_mapping, p)) = p

(* C2 *)

\* C2: position_mapping[r] is non-sentinel if and only if an entry with RID
\* r is present in the store, and in that case position_mapping[r] is
\* smaller than the entry count and frn_mapping[position_mapping[r]] == r.
C2_MapNonSentinelIffPresent ==
    ~filesystem.panicked =>
        /\ \A r \in 0..(Len(filesystem.position_mapping) - 1) :
            LET v == At(filesystem.position_mapping, r) IN
            /\ ~IsSentinel(v) <=> (\E p \in Positions(filesystem) :
                                        At(filesystem.frn_mapping, p) = r)
            /\ ~IsSentinel(v) =>
                    /\ v < EntryCount(filesystem)
                    /\ At(filesystem.frn_mapping, v) = r
        /\ \A p \in Positions(filesystem) :
            InBounds(filesystem.position_mapping, At(filesystem.frn_mapping, p))

(* C3 *)

\* C3: in every reachable state the parallel sequences filenames,
\* lowercase_filenames, frn_mapping, parent_mapping, filesizes and
\* modified_dates all have the same length.
C3_ParallelSequencesSameLength ==
    ~filesystem.panicked =>
        /\ Len(filesystem.lowercase_filenames) = Len(filesystem.filenames)
        /\ Len(filesystem.frn_mapping) = Len(filesystem.filenames)
        /\ Len(filesystem.parent_mapping) = Len(filesystem.filenames)
        /\ Len(filesystem.filesizes) = Len(filesystem.filenames)
        /\ Len(filesystem.modified_dates) = Len(filesystem.filenames)

(* C4 *)

\* C4: in every reachable state every element of the View (shown) is a
\* valid position, i.e. smaller than the current entry count.
C4_ViewHoldsValidPositions ==
    ~filesystem.panicked =>
        \A i \in 1..Len(filesystem.shown) :
            filesystem.shown[i] \in Positions(filesystem)

(* C5 *)

\* C5: in every reachable state the View is ordered according to the active
\* sort key and direction: ascending by position for the record-order key,
\* non-decreasing (Ascending) or non-increasing (Descending) by display name
\* or size for the name or size key.
C5_ViewOrderedByActiveKey ==
    ~filesystem.panicked => IsOrdered(filesystem)

(* C6 *)

\* the positions of the entries whose lowercase name contains the query,
\* trimmed at the end and case-folded as the names are (to_lowercase)
CaseInsensitiveMatches(fs, query) ==
    {p \in Positions(fs) :
        Contains(At(fs.lowercase_filenames, p), to_lowercase(trim_end(query)))}

\* C6: after search(q) the View holds, as a set, exactly the positions of
\* all entries whose lowercase name contains the case-folded,
\* trailing-whitespace-trimmed query: matching is case-insensitive for every
\* query and every stored name.
C6_SearchIsCaseInsensitive ==
    (called.entry = "search" /\ ~filesystem.panicked) =>
        /\ Range(filesystem.shown) = CaseInsensitiveMatches(filesystem, called.query)
        /\ Len(filesystem.shown) = Cardinality(Range(filesystem.shown))

(* C7 *)

\* the step is the search_shown branch of a text change, taken on a View
\* that search(previous) produces on the current store
RefinesSearchResult ==
    /\ search' # search
    /\ called'.entry = "search_shown"
    /\ Len(previous_search) # 0
    /\ Contains(search', previous_search)
    /\ filesystem \in FileSystem_search(filesystem, previous_search)

\* C7: whenever the previous query is a substring of the new query,
\* search_shown(new) run on the View produced by search(previous) yields the
\* same set of positions, in an order consistent with the active sort key,
\* as search(new) run on the same store.
C7_RefineEqualsSearch ==
    [][RefinesSearchResult =>
        \E full \in FileSystem_search(filesystem, search') :
            IF filesystem'.panicked THEN full.panicked
            ELSE /\ ~full.panicked
                 /\ Range(filesystem'.shown) = Range(full.shown)
                 /\ Len(filesystem'.shown) = Len(full.shown)
                 /\ IsOrdered(filesystem')]_vars

\* reached: search_shown has run on the result of search, has kept an entry
\* and has dropped another one
C7_Witness ==
    /\ called.entry = "search_shown"
    /\ called.after = "search"
    /\ ~filesystem.panicked
    /\ Len(filesystem.shown) >= 1
    /\ \E p \in Positions(filesystem) : p \notin Range(filesystem.shown)
    /\ filesystem \in FileSystem_search(filesystem, search)

(* C8 *)

EmptyQueryCall(c, entry) == c.entry = entry /\ c.query = <<>>

Get(s, i) == IF InBounds(s, i) THEN <<At(s, i)>> ELSE <<>>

\* all attributes of the entry at position p, each an Option
EntryAt(fs, p) ==
    [rid      |-> Get(fs.frn_mapping, p),
     parent   |-> Get(fs.parent_mapping, p),
     name     |-> Get(fs.filenames, p),
     lowercase|-> Get(fs.lowercase_filenames, p),
     size     |-> Get(fs.filesizes, p),
     modified |-> Get(fs.modified_dates, p)]

\* the six parallel sequences all have length n
StoreHasLength(fs, n) ==
    /\ Len(fs.filenames) = n
    /\ Len(fs.lowercase_filenames) = n
    /\ Len(fs.frn_mapping) = n
    /\ Len(fs.parent_mapping) = n
    /\ Len(fs.filesizes) = n
    /\ Len(fs.modified_dates) = n

\* the step is delete(file_id) for an RID that has an entry
IsDeleteOfPresent(file_id) ==
    /\ ~filesystem.panicked
    /\ InBounds(filesystem.position_mapping, file_id_to_frn(file_id))
    /\ ~IsSentinel(At(filesystem.position_mapping, file_id_to_frn(file_id)))
    /\ filesystem' \in FileSystem_delete(filesystem, file_id)
    /\ ~filesystem'.panicked
    /\ UNCHANGED <<search, previous_search>>
    /\ called' = NoCall

\* C9: delete of a present RID at a non-last position p moves the former
\* last entry with all its attributes (RID, parent RID, name, lowercase
\* name, size, modified date) to position p, sets that entry's Position Map
\* value to p and the deleted RID's value to the sentinel, and shrinks the
\* store by one; delete of the entry at the last position shrinks the store
\* by one and changes no other entry's position or Position Map value.
C9_DeleteRelocatesLastEntry ==
    [][\A file_id \in FileIds :
        IsDeleteOfPresent(file_id) =>
            LET rid == file_id_to_frn(file_id)
                p == At(filesystem.position_mapping, rid)
                n == EntryCount(filesystem)
                moved == At(filesystem.frn_mapping, n - 1)
            IN  /\ StoreHasLength(filesystem', n - 1)
                /\ IsSentinel(At(filesystem'.position_mapping, rid))
                /\ p < n - 1 =>
                    /\ EntryAt(filesystem', p) = EntryAt(filesystem, n - 1)
                    /\ At(filesystem'.position_mapping, moved) = p
                /\ \A q \in 0..(n - 2) :
                    (q # p) => EntryAt(filesystem', q) = EntryAt(filesystem, q)
                /\ \A r \in 0..(Len(filesystem.position_mapping) - 1) :
                    (r # rid /\ (p = n - 1 \/ r # moved)) =>
                        At(filesystem'.position_mapping, r)
                            = At(filesystem.position_mapping, r)
      ]_vars

(* C10 *)

\* C10: after delete of a present RID whose position p is in the View, p is
\* no longer an element of the View, for every active sort key and
\* direction under which the View is currently ordered.
C10_DeleteRemovesPositionFromView ==
    [][\A file_id \in FileIds :
        (/\ IsDeleteOfPresent(file_id)
         /\ IsOrdered(filesystem)
         /\ At(filesystem.position_mapping, file_id_to_frn(file_id))
                \in Range(filesystem.shown))
        => At(filesystem.position_mapping, file_id_to_frn(file_id))
                \notin Range(filesystem'.shown)
      ]_vars

(* C11 *)

\* the step is the dispatch of record by the owner's drain
IsRecordStep(record) ==
    /\ ~filesystem.panicked
    /\ filesystem' \in ApplyRecordOutcomes(filesystem, record)
    /\ called' = NoCall
    /\ UNCHANGED <<search, previous_search>>

\* C11: delete, rename, create and update never panic and never index out
\* of bounds for any input: a delete or rename naming an RID with no entry
\* (including a rename whose path has no file-name component) leaves the
\* whole store and the View unchanged.
C11_MutationsNeverPanic ==
    [][\A record \in UsnRecords :
        IsRecordStep(record) =>
            /\ ~filesystem'.panicked
            /\ (/\ record.reason \in {{"FILE_DELETE"}, {"RENAME_NEW_NAME"}}
                /\ ~HasEntry(filesystem, file_id_to_frn(record.file_id)))
               => filesystem' = filesystem
      ]_vars

(* C12 *)

\* C12: rename of an RID that has no entry in the store is a no-op: the
\* entry count and every stored name, lowercase name and parent RID are
\* unchanged.
C12_RenameOfAbsentIsNoOp ==
    [][\A record \in UsnRecords :
        (/\ record.reason = {"RENAME_NEW_NAME"}
         /\ IsRecordStep(record)
         /\ ~HasEntry(filesystem, file_id_to_frn(record.file_id)))
        => /\ ~filesystem'.panicked
           /\ EntryCount(filesystem') = EntryCount(filesystem)
           /\ filesystem'.filenames = filesystem.filenames
           /\ filesystem'.lowercase_filenames = filesystem.lowercase_filenames
           /\ filesystem'.parent_mapping = filesystem.parent_mapping
      ]_vars

(* C14 *)

\* C14: create with a path that has a file-name component appends exactly
\* one entry whose display name is the path's final component with its case
\* preserved, whose lowercase name is that component lowercased and whose
\* RID and parent RID are the reduced identifiers, and sets
\* position_mapping[rid] to the new last position; create with a path that
\* has no file-name component changes nothing.
C14_CreateAppendsEntry ==
    [][\A record \in UsnRecords :
        (record.reason = {"FILE_CREATE"} /\ IsRecordStep(record)) =>
            IF file_name(record.path) = <<>> THEN filesystem' = filesystem
            ELSE LET n == EntryCount(filesystem)
                     rid == file_id_to_frn(record.file_id)
                     component == to_string_lossy(file_name(record.path)[1])
                 IN  /\ ~filesystem'.panicked
                     /\ EntryCount(filesystem') = n + 1
                     /\ SubSeq(filesystem'.filenames, 1, n) = filesystem.filenames
                     /\ At(filesystem'.filenames, n) = component
                     /\ At(filesystem'.lowercase_filenames, n) = to_lowercase(component)
                     /\ At(filesystem'.frn_mapping, n) = rid
                     /\ At(filesystem'.parent_mapping, n)
                            = file_id_to_frn(record.parent_id)
                     /\ At(filesystem'.position_mapping, rid) = n
      ]_vars

(* C13 *)

\* C13: applying delete(rid) twice in a row for a present RID: the second
\* call changes nothing (the record arrays, the Position Map and the View
\* are identical before and after it) and it does not panic.
C13_SecondDeleteChangesNothing ==
    [][(called'.entry = "delete" /\ called'.after = "repeat") =>
            /\ ~filesystem'.panicked
            /\ filesystem' = filesystem
      ]_vars

(* C15 *)

\* the Position Map holds a position for rid: the lookup of 4.3 ("look up
\* position; if absent, no-op") finds the RID
IsLookedUp(fs, rid) ==
    InBounds(fs.position_mapping, rid) /\ ~IsSentinel(At(fs.position_mapping, rid))

\* C15: rename of a present RID updates only that entry's name, lowercase
\* name and parent RID: its position and stored RID, the entry count, the
\* Position Map, every other entry, the View, the sort key and the
\* direction are all unchanged.
C15_RenameTouchesOneEntry ==
    [][(called'.entry = "rename" /\ IsLookedUp(filesystem, called'.query[1])) =>
        LET rid == called'.query[1] IN
        /\ ~filesystem'.panicked
        /\ At(filesystem.position_mapping, rid) \in Positions(filesystem)
        /\ At(filesystem.frn_mapping, At(filesystem.position_mapping, rid)) = rid
        /\ EntryCount(filesystem') = EntryCount(filesystem)
        /\ filesystem'.position_mapping = filesystem.position_mapping
        /\ filesystem'.frn_mapping = filesystem.frn_mapping
        /\ filesystem'.filesizes = filesystem.filesizes
        /\ filesystem'.modified_dates = filesystem.modified_dates
        /\ filesystem'.shown = filesystem.shown
        /\ filesystem'.order = filesystem.order
        /\ filesystem'.direction = filesystem.direction
        /\ \A q \in Positions(filesystem) :
            q # At(filesystem.position_mapping, rid)
                => EntryAt(filesystem', q) = EntryAt(filesystem, q)
        /\ \A file_id \in FileIds, parent_id \in StoreParentIds, path \in StorePaths :
            (/\ file_id_to_frn(file_id) = rid
             /\ filesystem' \in FileSystem_rename(filesystem, file_id, parent_id, path))
            => LET p == At(filesystem.position_mapping, rid) IN
               /\ At(filesystem'.parent_mapping, p) = file_id_to_frn(parent_id)
               /\ file_name(path) # <<>> =>
                    /\ At(filesystem'.filenames, p) = file_name(path)[1]
                    /\ At(filesystem'.lowercase_filenames, p)
                            = to_lowercase(file_name(path)[1])
      ]_vars

\* reached: rename has run for an RID the Position Map holds, in a store
\* with another entry, and has left its entry with the new name and a
\* parent that the other entry does not have
C15_Witness ==
    /\ called.entry = "rename"
    /\ ~filesystem.panicked
    /\ IsLookedUp(filesystem, called.query[1])
    /\ LET p == At(filesystem.position_mapping, called.query[1]) IN
        /\ p \in Positions(filesystem)
        /\ At(filesystem.filenames, p) = <<201, 65, 98>>
        /\ At(filesystem.lowercase_filenames, p) = <<233, 97, 98>>
        /\ At(filesystem.parent_mapping, p) = 6
        /\ \E q \in Positions(filesystem) :
            /\ q # p
            /\ At(filesystem.parent_mapping, q) = ROOT_FRN
            /\ At(filesystem.filenames, q) = <<233, 97, 98>>

(* C16 *)

\* C16: the Position Map length never decreases across any operation, and
\* after create(rid) it is at least rid + 1 with every slot added by the
\* extension other than rid's own holding the sentinel; this holds for every
\* starting length of the map, including an empty map.
C16_PositionMapGrows ==
    [][/\ ~filesystem'.panicked
            => Len(filesystem'.position_mapping) >= Len(filesystem.position_mapping)
       /\ \A file_id \in FileIds, parent_id \in StoreParentIds, path \in StorePaths :
            (/\ called'.entry = "create"
             /\ file_name(path) # <<>>
             /\ filesystem' \in FileSystem_create(filesystem, file_id, parent_id, path))
            => LET rid == file_id_to_frn(file_id) IN
               /\ ~filesystem'.panicked
               /\ Len(filesystem'.position_mapping) >= rid + 1
               /\ \A slot \in Len(filesystem.position_mapping)
                                ..(Len(filesystem'.position_mapping) - 1) :
                    slot # rid => IsSentinel(At(filesystem'.position_mapping, slot))
      ]_vars

(* C17 *)

\* C17: toggling the direction while the sort key (name or size) is
\* unchanged reverses the View in place without calling sort, and the
\* resulting View is the exact reverse of the previous sequence of positions
\* and is ordered under the flipped direction for the same key.
C17_ToggleReversesView ==
    [][called'.entry = "toggle" =>
            /\ ~filesystem'.panicked
            /\ filesystem'.order = filesystem.order
            /\ filesystem'.direction = Flip(filesystem.direction)
            /\ filesystem'.shown = Reverse(filesystem.shown)
            /\ IsOrdered(filesystem')
      ]_vars

(* C18 *)

\* b is a reordering of a
IsPermutation(a, b) ==
    /\ Len(a) = Len(b)
    /\ \A x \in Range(a) \cup Range(b) :
        Cardinality({i \in 1..Len(a) : a[i] = x})
            = Cardinality({i \in 1..Len(b) : b[i] = x})

\* sort panics on fs: two or more positions to compare, one of them beyond
\* the sequence of the active key
SortPanics(fs) ==
    /\ fs.order # "RecordNumber"
    /\ Len(fs.shown) >= 2
    /\ \E i \in 1..Len(fs.shown) : ~InBounds(KeyVec(fs), fs.shown[i])

\* C18 as stated: changing the sort key re-sorts the whole View with the new
\* key's comparator in the direction that was current before the change;
\* the direction itself is not modified by a key change.
C18_KeyChangeKeepsDirection ==
    [][called'.entry = "set_order" =>
            /\ filesystem'.order # filesystem.order
            /\ filesystem'.direction = filesystem.direction
            /\ ~filesystem'.panicked =>
                /\ IsPermutation(filesystem.shown, filesystem'.shown)
                /\ IsOrdered(filesystem')
      ]_vars

\* C18 as amended: changing the sort key sets the direction to Descending,
\* whatever it was, and re-sorts the whole View with the new key's
\* comparator in that direction; the call panics instead when the View
\* holds two or more positions and one of them is beyond the new key's
\* sequence.
C18_KeyChangeSetsDescending ==
    [][called'.entry = "set_order" =>
            /\ filesystem'.order # filesystem.order
            /\ filesystem'.order \in {"Name", "Size"}
            /\ filesystem'.direction = "Descending"
            /\ filesystem'.panicked
                <=> SortPanics([filesystem EXCEPT !.order = filesystem'.order])
            /\ ~filesystem'.panicked =>
                /\ IsPermutation(filesystem.shown, filesystem'.shown)
                /\ \A i \in 1..(Len(filesystem'.shown) - 1) :
                    Compare(filesystem', filesystem'.shown[i],
                            filesystem'.shown[i + 1]) <= 0
                /\ [filesystem' EXCEPT !.order = filesystem.order,
                                       !.direction = filesystem.direction,
                                       !.shown = filesystem.shown] = filesystem
      ]_vars

\* reached: a key change found the direction Ascending, has set it to
\* Descending and has put a View of two entries in an order that is not
\* the record order
C18_Witness ==
    /\ called.entry = "set_order"
    /\ called.after = "Ascending"
    /\ ~filesystem.panicked
    /\ filesystem.direction = "Descending"
    /\ Len(filesystem.shown) >= 2
    /\ ~IsSortedAscending(filesystem.shown)
    /\ Compare(filesystem, filesystem.shown[1], filesystem.shown[2]) < 0

(* C19 *)

\* the parent RID of the entry at position p
ParentOf(fs, p) == At(fs.parent_mapping, p)

\* the ancestor chains of position p, topmost first: the last one is the
\* entry at position_mapping[parent RID] of p, each one is the entry at
\* position_mapping[parent RID] of the next one down, the topmost has the
\* parent RID 5 and nothing below it has
AncestorChains(fs, p) ==
    UNION {{anc \in [1..k -> Positions(fs)] :
                /\ \A i \in 1..k :
                    LET below == IF i = k THEN p ELSE anc[i + 1] IN
                    /\ ParentOf(fs, below) # ROOT_FRN
                    /\ InBounds(fs.position_mapping, ParentOf(fs, below))
                    /\ At(fs.position_mapping, ParentOf(fs, below)) = anc[i]
                /\ ParentOf(fs, IF k = 0 THEN p ELSE anc[1]) = ROOT_FRN} :
           k \in 0..EntryCount(fs)}

\* the names of the entries of a chain
ChainNames(fs, anc) == [i \in 1..Len(anc) |-> At(fs.filenames, anc[i])]

\* the latest step was path(position) for a position of the store
PathCalled(position) ==
    /\ called.entry = "path"
    /\ called.query = <<position>>
    /\ position \in Positions(filesystem)

\* C19 as stated: for any position in a store whose parent links lead to
\* the root identifier 5, path(position) returns the volume root followed by
\* the names of the entry's ancestors in root-to-leaf order, and appending
\* the entry's own name gives a path whose final component is the entry's
\* stored name.
C19_PathIsAncestorNames ==
    \A position \in Positions(filesystem) :
        (PathCalled(position) /\ AncestorChains(filesystem, position) # {}) =>
            LET result == FileSystem_path(filesystem, position)
                name == At(filesystem.filenames, position)
            IN  /\ ~filesystem.panicked
                /\ result.status = "ok"
                /\ \E anc \in AncestorChains(filesystem, position) :
                    result.path = <<filesystem.volume_path>>
                                    \o ChainNames(filesystem, anc)
                /\ PathBuf_file_name(Append(result.path, name)) = <<name>>

\* C19 as amended: the same, for every entry whose stored name is not "."
\* (the root directory's own record, which the scan loads like any other)
\* or ".."; for those the joined path has no final component, since a
\* trailing "." is not a component and a path ending in ".." has no file
\* name.
C19_PathIsAncestorNamesOfNamed ==
    \A position \in Positions(filesystem) :
        (PathCalled(position) /\ AncestorChains(filesystem, position) # {}) =>
            LET result == FileSystem_path(filesystem, position)
                name == At(filesystem.filenames, position)
            IN  /\ ~filesystem.panicked
                /\ result.status = "ok"
                /\ \E anc \in AncestorChains(filesystem, position) :
                    result.path = <<filesystem.volume_path>>
                                    \o ChainNames(filesystem, anc)
                /\ IF name \in {Dot, DotDot}
                   THEN PathBuf_file_name(Append(result.path, name)) # <<name>>
                   ELSE PathBuf_file_name(Append(result.path, name)) = <<name>>

\* reached: path has run for an entry with two ancestors of different names
C19_Witness ==
    \E position \in Positions(filesystem) :
        /\ PathCalled(position)
        /\ ~filesystem.panicked
        /\ \E anc \in AncestorChains(filesystem, position) :
            /\ Len(anc) = 2
            /\ At(filesystem.filenames, anc[1]) # At(filesystem.filenames, anc[2])
            /\ FileSystem_path(filesystem, position).path
                = <<filesystem.volume_path, At(filesystem.filenames, anc[1]),
                    At(filesystem.filenames, anc[2])>>

(* C20 *)

\* the walk of path from position p comes to an entry whose parent RID is
\* not the root's and has no position in the Position Map
RECURSIVE MeetsUnmappedParent(_, _, _)
MeetsUnmappedParent(fs, p, steps) ==
    /\ p \in Positions(fs)
    /\ ParentOf(fs, p) # ROOT_FRN
    /\ steps <= EntryCount(fs)
    /\ \/ ~IsLookedUp(fs, ParentOf(fs, p))
       \/ MeetsUnmappedParent(fs, At(fs.position_mapping, ParentOf(fs, p)), steps + 1)

\* C20: when path(position) meets a parent RID that has no entry in the
\* Position Map, the resolution fails for that single call only: it does not
\* panic and does not index with the sentinel.
C20_UnmappedParentDoesNotPanic ==
    \A position \in Positions(filesystem) :
        (PathCalled(position) /\ MeetsUnmappedParent(filesystem, position, 0))
            => /\ ~filesystem.panicked
               /\ called.after # "panic"

----------------------------------------------------------------------------
(* The scan of main(), one slot of the file table per step *)

\* what the scan may find in a slot: nothing to ingest, or an in-use record
\* with a file name
ScanRecords == {r \in MftRecords : r.size = 1}
ScanFinds == {NoRecord} \cup {<<r>> : r \in ScanRecords}

\* the history of the scan: `number`, the next slot of the loop, and how
\* many records have been ingested
Scanned(number, ingested) == Call("scan", <<number, ingested>>, "none")

InitLoad ==
    /\ filesystem = EmptyFileSystem(MaxRecord)
    /\ search = <<>>
    /\ previous_search = <<>>
    /\ called = Scanned(0, 0)
    /\ ChannelIdle

\* one iteration of the loop over 0..mft.max_record
ScanSlot ==
    /\ called.entry = "scan"
    /\ called.query[1] < MaxRecord
    /\ \E found \in ScanFinds :
        LET number == called.query[1]
            mft == [n \in 0..(MaxRecord - 1) |-> IF n = number THEN found ELSE NoRecord]
        IN  /\ filesystem' = LoadRecord(filesystem, mft, number)
            /\ called' = Scanned(number + 1,
                                  called.query[2] + (IF found = NoRecord THEN 0 ELSE 1))
    /\ UNCHANGED <<search, previous_search, pipe>>

\* after the loop: filesystem.shown = (0..filesystem.filenames.len()).collect()
ScanEnd ==
    /\ called.entry = "scan"
    /\ called.query[1] >= MaxRecord
    /\ filesystem' = [filesystem EXCEPT !.shown = Iota(Len(filesystem.filenames))]
    /\ called' = Call("loaded", called.query, "none")
    /\ UNCHANGED <<search, previous_search, pipe>>

NextLoad == ScanSlot \/ ScanEnd

SpecLoad == InitLoad /\ [][NextLoad]_vars

----------------------------------------------------------------------------
(* C21 *)

\* the slots of the Position Map that hold a position
MappedSlots(fs) ==
    {r \in 0..(Len(fs.position_mapping) - 1) : ~IsSentinel(At(fs.position_mapping, r))}

\* C21: when the bulk load has ingested N records, the store holds exactly N
\* entries, their RIDs increase with the position, the View is the
\* positions 0..N-1 in that order, and the Position Map has exactly N
\* non-sentinel slots, the slot of each loaded RID holding its position.
C21_BulkLoadResult ==
    called.entry = "loaded" =>
        LET N == called.query[2] IN
        /\ Len(filesystem.filenames) = N
        /\ Len(filesystem.lowercase_filenames) = N
        /\ Len(filesystem.frn_mapping) = N
        /\ Len(filesystem.parent_mapping) = N
        /\ \A p, q \in 0..(N - 1) :
              p < q => At(filesystem.frn_mapping, p) < At(filesystem.frn_mapping, q)
        /\ filesystem.shown = [i \in 1..N |-> i - 1]
        /\ Cardinality(MappedSlots(filesystem)) = N
        /\ \A p \in 0..(N - 1) :
              /\ At(filesystem.frn_mapping, p) < Len(filesystem.position_mapping)
              /\ At(filesystem.position_mapping, At(filesystem.frn_mapping, p)) = p

\* a load of three records with empty slots before and between them
C21_Witness ==
    /\ called.entry = "loaded"
    /\ called.query[2] = 3
    /\ filesystem.frn_mapping = <<1, 4, 7>>

----------------------------------------------------------------------------
(* The reader thread, the channel and the ticks of the owner *)

\* the most records the reader sends in a run of the model
MaxSent == 3

\* the table at the scan: slot 6 empty or in use, slot 7 empty
ChannelImages ==
    {mft \in MftImages :
        /\ mft[7] = NoRecord
        /\ mft[6] = NoRecord \/ mft[6][1].size = 1}

\* the records the journal delivers: a create with an attribute change, a
\* delete, a create of a file renamed before its first record, the old-name
\* half of a rename, and the delete of a file whose slot lies beyond the
\* table the scan saw (created between the scan and the journal's start)
ChannelRecords ==
    {[file_id |-> NormalId(6, 1), parent_id |-> NormalId(ROOT_FRN, 5),
      path |-> <<<<201, 65, 98>>>>, reason |-> {"FILE_CREATE", "BASIC_INFO_CHANGE"}],
     [file_id |-> NormalId(6, 1), parent_id |-> NormalId(ROOT_FRN, 5),
      path |-> <<<<201, 65, 98>>>>, reason |-> {"FILE_DELETE"}],
     [file_id |-> ExtendedId(7, 2), parent_id |-> NormalId(ROOT_FRN, 5),
      path |-> <<<<98>>>>, reason |-> {"RENAME_NEW_NAME", "FILE_CREATE"}],
     [file_id |-> NormalId(6, 1), parent_id |-> NormalId(ROOT_FRN, 5),
      path |-> <<<<98>>>>, reason |-> {"RENAME_OLD_NAME"}],
     [file_id |-> NormalId(MaxRecord, 1), parent_id |-> NormalId(ROOT_FRN, 5),
      path |-> <<<<98>>>>, reason |-> {"FILE_DELETE"}]}

\* texts of the text field: "" and "b"
ChannelQueries == {<<>>, <<98>>}

InitChannel ==
    /\ \E mft \in ChannelImages : filesystem = BulkLoad(mft, MaxRecord)
    /\ search = <<>>
    /\ previous_search = <<>>
    /\ called = NoCall
    /\ ChannelIdle

\* the reader as it would be if it dispatched the record itself
ReaderSend_applying ==
    /\ ~filesystem.panicked
    /\ Len(sent) < MaxSent
    /\ \E record \in ChannelRecords :
        /\ record_rx' = Append(record_rx, record)
        /\ sent' = Append(sent, record)
        /\ filesystem' \in ApplyRecordOutcomes(filesystem, record)
    /\ UNCHANGED <<search, previous_search, called, applied, pc>>

\* the reader thread: tx.send(record) for a record of journal.read(); the
\* closure owns tx, its own volume and the journal, nothing else
ReaderSend ==
    /\ ~filesystem.panicked
    /\ Len(sent) < MaxSent
    /\ \E record \in ChannelRecords :
        /\ record_rx' = Append(record_rx, record)
        /\ sent' = Append(sent, record)
    /\ UNCHANGED <<filesystem, search, previous_search, called, applied, pc>>

\* try_iter() yields the oldest record in flight and the closure of
\* for_each dispatches it
TakeRecord ==
    /\ ~filesystem.panicked
    /\ pc = "drain"
    /\ record_rx # <<>>
    /\ filesystem' \in ApplyRecordOutcomes(filesystem, Head(record_rx))
    /\ record_rx' = Tail(record_rx)
    /\ applied' = Append(applied, Head(record_rx))
    /\ called' = NoCall
    /\ UNCHANGED <<search, previous_search, sent, pc>>

\* try_iter() finds the channel empty: for_each returns and update goes on
\* to the text field
DrainEnd ==
    /\ ~filesystem.panicked
    /\ pc = "drain"
    /\ record_rx = <<>>
    /\ pc' = "query"
    /\ UNCHANGED <<filesystem, search, previous_search, called, record_rx, sent, applied>>

\* the rest of update on a tick on which the text field changed
TextChanged ==
    /\ ~filesystem.panicked
    /\ pc = "query"
    /\ \E new \in ChannelQueries :
        /\ new # search
        /\ search' = new
        /\ filesystem' \in QueryChangeOutcomes(filesystem, previous_search, new)
        /\ previous_search' = new
        /\ called' = Call(QueryEntry(previous_search, new), new, called.entry)
    /\ pc' = "drain"
    /\ UNCHANGED <<record_rx, sent, applied>>

\* the rest of update on a tick on which the Name header was clicked
NameClicked ==
    /\ ~filesystem.panicked
    /\ pc = "query"
    /\ filesystem' \in HeaderClickOutcomes(filesystem, "Name")
    /\ called' = Call(ClickEntry(filesystem, "Name"), <<>>, filesystem.direction)
    /\ pc' = "drain"
    /\ UNCHANGED <<search, previous_search, record_rx, sent, applied>>

\* the rest of update on a tick without input to the text field or headers
NothingChanged ==
    /\ ~filesystem.panicked
    /\ pc = "query"
    /\ pc' = "drain"
    /\ UNCHANGED <<filesystem, search, previous_search, called, record_rx, sent, applied>>

\* the steps of FileSearch::update
NextOwner == TakeRecord \/ DrainEnd \/ TextChanged \/ NameClicked \/ NothingChanged

NextChannel ==
    \/ ReaderSend
    \/ TakeRecord \/ DrainEnd \/ TextChanged \/ NameClicked \/ NothingChanged

SpecChannel == InitChannel /\ [][NextChannel]_vars

\* the event loop keeps calling update as long as the window receives
\* input or repaints
SpecChannelLive == SpecChannel /\ WF_vars(NextOwner)

----------------------------------------------------------------------------
(* C22 *)

\* the records dispatched so far followed by those in flight are the
\* records sent, in the order sent: none is lost, repeated or overtaken
DrainKeepsSendOrder == applied \o record_rx = sent

\* the drain of a tick ends only when every record sent so far has been
\* dispatched
DrainEndsWhenAllApplied ==
    [][(pc = "drain" /\ pc' = "query") => applied = sent]_vars

\* every record sent is dispatched at some later time
EverySentRecordIsApplied ==
    \A k \in 1..MaxSent : (Len(sent) >= k) ~> (Len(applied) >= k)

\* as long as no handler has panicked, the owner can take its next step
OwnerCanStepUnlessPanicked == filesystem.panicked \/ ENABLED NextOwner

\* C22: on every tick the owner dispatches all records in the channel, in
\* the order the reader sent them, before it goes on to the text field and
\* the headers; no record overtakes another, and every record sent is
\* dispatched exactly once at some later tick.
C22_DrainInOrderExactlyOnce ==
    /\ []DrainKeepsSendOrder
    /\ DrainEndsWhenAllApplied
    /\ EverySentRecordIsApplied

----------------------------------------------------------------------------
(* C23 *)

\* the reason bits that have a handler, in the order of their tests
HandledBits == <<"FILE_DELETE", "RENAME_NEW_NAME", "FILE_CREATE", "BASIC_INFO_CHANGE">>

\* one run of the handler of a reason bit
HandlerOutcomes(bit, fs, record) ==
    CASE bit = "FILE_DELETE" -> FileSystem_delete(fs, record.file_id)
      [] bit = "RENAME_NEW_NAME" ->
            FileSystem_rename(fs, record.file_id, record.parent_id, record.path)
      [] bit = "FILE_CREATE" ->
            FileSystem_create(fs, record.file_id, record.parent_id, record.path)
      [] bit = "BASIC_INFO_CHANGE" ->
            FileSystem_update(fs, record.file_id, record.parent_id, record.path)

\* the stores left by running, once each and in order, the handlers of the
\* bits of the sequence `bits` that the record carries; a store that has
\* panicked runs nothing more
RECURSIVE RunHandlersOnce(_, _, _)
RunHandlersOnce(stores, record, bits) ==
    IF Len(bits) = 0 THEN stores
    ELSE RunHandlersOnce(
            UNION {IF bits[1] \in record.reason /\ ~fs.panicked
                   THEN HandlerOutcomes(bits[1], fs, record)
                   ELSE {fs} : fs \in stores},
            record, Tail(bits))

\* this step dispatches the oldest record in flight
IsDispatch == record_rx # <<>> /\ applied' = Append(applied, Head(record_rx))

\* C23: the dispatch of a change record runs, exactly once each, the
\* handlers delete, rename, create and update whose reason bit the record
\* carries, and no other handler, whatever the other bits are; a record that
\* carries only the rename-to-old-name bit changes nothing.
C23_HandlersRunOncePerBit ==
    [][IsDispatch =>
        LET record == Head(record_rx) IN
        /\ filesystem' \in RunHandlersOnce({filesystem}, record, HandledBits)
        /\ "FILE_CREATE" \notin record.reason =>
              EntryCount(filesystem') <= EntryCount(filesystem)
        /\ "FILE_DELETE" \notin record.reason =>
              EntryCount(filesystem') >= EntryCount(filesystem)
        /\ record.reason = {"RENAME_OLD_NAME"} => filesystem' = filesystem]_vars

\* a record with the rename-to-new-name and the file-create bit has been
\* dispatched to a store without its RID: rename found nothing, create
\* appended the entry
C23_Witness ==
    /\ ~filesystem.panicked
    /\ called = NoCall
    /\ applied # <<>>
    /\ applied[Len(applied)].reason = {"RENAME_NEW_NAME", "FILE_CREATE"}
    /\ Len(applied) = 1
    /\ HasEntry(filesystem, 7)

----------------------------------------------------------------------------
(* C24 *)

\* this step is the reader's: a record enters the channel
IsSend == sent' # sent

\* this step runs search, search_shown or sort, or the reset or toggle that
\* stands for them: the rest of update after the drain
IsRestOfUpdate == pc = "query" /\ pc' = "drain"

\* C24: a step of the reader appends one record to the channel and leaves
\* the store and the owner's fields alone; the owner dispatches records only
\* during the drain and runs search, search_shown and sort only after it, so
\* no step both mutates the store for a record and searches or sorts.
C24_ReaderOnlySendsOwnerSequential ==
    [][/\ IsSend =>
            /\ \E record \in ChannelRecords :
                /\ record_rx' = Append(record_rx, record)
                /\ sent' = Append(sent, record)
            /\ UNCHANGED <<filesystem, search, previous_search, called, applied, pc>>
       /\ IsDispatch =>
            /\ pc = "drain" /\ pc' = "drain"
            /\ UNCHANGED <<search, previous_search>>
       /\ IsRestOfUpdate => UNCHANGED <<record_rx, sent, applied>>
       /\ filesystem' # filesystem => IsDispatch \/ IsRestOfUpdate]_vars

\* the reader has sent a record between the drain of a tick and the rest of
\* the tick, after an earlier record was dispatched
C24_Witness ==
    /\ pc = "query"
    /\ record_rx # <<>>
    /\ applied # <<>>
    /\ ~filesystem.panicked

----------------------------------------------------------------------------
(* The identifier codec applied to identifiers of every shape *)

\* 16-bit words and bytes the identifiers are made of: zero, one, a mixed
\* pattern and all ones
CodecWords == {0, 1, 4660, 65535}
CodecBytes == {0, 18, 255}

\* FileId::Normal over every combination of the words, FileId::Extended
\* over every combination of its first eight bytes with a zero or all-ones
\* high half
CodecIds ==
    {[tag |-> "Normal", words |-> w] : w \in [1..4 -> CodecWords]}
    \cup {[tag |-> "Extended",
            Identifier |-> [i \in 1..16 |-> IF i <= 8 THEN low[i] ELSE high]] :
                low \in [1..8 -> CodecBytes], high \in {0, 255}}

InitCodec ==
    /\ filesystem = EmptyFileSystem(MaxRecord)
    /\ search = <<>>
    /\ previous_search = <<>>
    /\ called = NoCall
    /\ ChannelIdle

\* let file_record_number = file_id_to_frn(file_id), the first statement of
\* delete, rename and create, for the 64-bit form
ReduceNormal ==
    /\ called = NoCall
    /\ \E file_id \in CodecIds :
        /\ file_id.tag = "Normal"
        /\ called' = Call("file_id_to_frn", <<file_id>>, file_id_to_frn_u64(file_id))
    /\ UNCHANGED <<filesystem, search, previous_search, pipe>>

\* the same for the 128-bit form
ReduceExtended ==
    /\ called = NoCall
    /\ \E file_id \in CodecIds :
        /\ file_id.tag = "Extended"
        /\ called' = Call("file_id_to_frn", <<file_id>>, file_id_to_frn_u64(file_id))
    /\ UNCHANGED <<filesystem, search, previous_search, pipe>>

NextCodec == ReduceNormal \/ ReduceExtended

SpecCodec == InitCodec /\ [][NextCodec]_vars

----------------------------------------------------------------------------
(* C25 *)

\* bit k of a word
Bit(word, k) == (word \div (2 ^ k)) % 2

\* bit k (0 the least significant) of an identifier: of the 64-bit value,
\* or of the 128-bit value whose byte j holds the bits 8j .. 8j+7
IdBit(file_id, k) ==
    IF file_id.tag = "Normal"
    THEN Bit(file_id.words[(k \div 16) + 1], k % 16)
    ELSE Bit(file_id.Identifier[(k \div 8) + 1], k % 8)

\* bit k of a u64 given by its four words
U64Bit(w, k) == Bit(w[(k \div 16) + 1], k % 16)

\* identifiers that differ from file_id only in bits from 48 up: another
\* sequence word, or other bytes after the first six
SequenceVariants(file_id) ==
    IF file_id.tag = "Normal"
    THEN {[file_id EXCEPT !.words[4] = seq] : seq \in CodecWords}
    ELSE {[file_id EXCEPT !.Identifier = [i \in 1..16 |-> IF i <= 6 THEN @[i] ELSE b]] :
            b \in CodecBytes}

\* C25: the RID of an identifier is exactly its 48 low bits (for the
\* 128-bit form the first six bytes in little-endian order), so it is below
\* 2^48, and identifiers that differ only in the sequence bits above them
\* have the same RID.
C25_RidIsLow48Bits ==
    called.entry = "file_id_to_frn" =>
        LET file_id == called.query[1]
            rid == called.after
        IN  /\ \A k \in 0..47 : U64Bit(rid, k) = IdBit(file_id, k)
            /\ \A k \in 48..63 : U64Bit(rid, k) = 0
            /\ rid[4] = 0
            /\ \A other \in SequenceVariants(file_id) :
                  /\ \A k \in 0..47 : IdBit(other, k) = IdBit(file_id, k)
                  /\ file_id_to_frn_u64(other) = rid

\* an identifier with a non-zero sequence word and non-zero bits in each of
\* the three low words has been reduced
C25_Witness ==
    /\ called.entry = "file_id_to_frn"
    /\ called.query[1].tag = "Normal"
    /\ called.query[1].words = <<4660, 65535, 1, 65535>>
    /\ called.after = <<4660, 65535, 1, 0>>

----------------------------------------------------------------------------
(* C26 *)

\* the positions whose lowercase name contains the query as search and
\* search_shown normalise it
MatchesOf(fs, query) ==
    {p \in 0..(Len(fs.lowercase_filenames) - 1) :
        Contains(At(fs.lowercase_filenames, p), to_ascii_lowercase(trim_end(query)))}

\* the owner takes the search_shown branch for a changed text field
OwnerRefines ==
    /\ ~filesystem.panicked
    /\ search' # search
    /\ called'.entry = "search_shown"

\* C26: whenever the owner calls search_shown(new) rather than search(new),
\* the View it refines holds every position whose lowercase name contains
\* the new query, whatever change records were applied since the previous
\* search, so the refined View misses no match that search(new) would find.
C26_RefinedViewCoversMatches ==
    [][OwnerRefines =>
        /\ MatchesOf(filesystem, search') \subseteq Range(filesystem.shown)
        /\ ~filesystem'.panicked =>
              MatchesOf(filesystem, search') \subseteq Range(filesystem'.shown)]_vars

----------------------------------------------------------------------------
(* C27 *)

\* C27: in every reachable state no two occupied positions hold the same
\* RID: frn_mapping contains each RID at most once, also after two create
\* records for one RID and after a create for an RID the scan has loaded.
C27_EachRidAtMostOnce ==
    \A p, q \in 0..(Len(filesystem.frn_mapping) - 1) :
        p # q => At(filesystem.frn_mapping, p) # At(filesystem.frn_mapping, q)

----------------------------------------------------------------------------
(* C28 *)

\* C28: path(position) returns for every valid position in every reachable
\* state: no sequence of create, rename and delete calls leaves a parent
\* chain that comes back to a position it has left without reaching the
\* root identifier 5.
C28_PathTerminates ==
    \A position \in Positions(filesystem) :
        FileSystem_path(filesystem, position).status # "diverges"

====
